---- MODULE Spec2Model ----
(***************************************************************************)
(* A model of tracker.py: the YouTubeGrowthTracker class (credential       *)
(* resolution, the two fetchers, the engagement rate, compare_channels,    *)
(* export_to_csv) and main().                                              *)
(*                                                                         *)
(* Conventions.                                                            *)
(*  - A Python dict is a TLA+ record whose DOMAIN is the set of keys that  *)
(*    are present; d.get(k, default) is Get(d, k, default).                *)
(*  - The decimal text the API sends for a count is a sequence of          *)
(*    character codes: 0..9 are the digits, NonDigit any other character.  *)
(*  - A Python float is the exact rational it approximates, kept as a      *)
(*    normalised fraction [num, den]; rounding is not modelled.            *)
(*  - A publish instant is a whole number of half days; the API always     *)
(*    sends a well-formed UTC instant, so line 159-160's parse is total.   *)
(*  - A call of a function is an outcome: [kind |-> "return", value |-> v] *)
(*    or [kind |-> "raise", exc |-> e].                                    *)
(***************************************************************************)
EXTENDS Integers, Sequences, FiniteSets, TLC

\* ------------------------------------------------------------------ bounds

\* longest list of channel identifiers handed to compare_channels
MaxChannels == 2
\* most videos a channel has on the platform (at most max_results = 10)
MaxVideos == 2
\* largest view, like or comment count calculate_engagement_rate is given
MaxStat == 3

\* ------------------------------------------------------------ Python values

\* None where a string is expected (the credential) and where an object is
NoKey == "<None>"
None == [is_none |-> TRUE]
EmptyDict == [k \in {} |-> 0]
Get(d, k, default) == IF k \in DOMAIN d THEN d[k] ELSE default

\* Python truthiness of an optional string: None and "" are falsy
Truthy(s) == s # NoKey /\ s # ""
\* Python `a or b`
Or(a, b) == IF Truthy(a) THEN a ELSE b

Return(v) == [kind |-> "return", value |-> v]
Raise(e) == [kind |-> "raise", exc |-> e]

\* the exception classes that are subclasses of requests' RequestException
RequestExceptions == {"RequestException"}

\* ------------------------------------------------------------------ numbers

RECURSIVE GCD(_, _)
GCD(a, b) == IF b = 0 THEN a ELSE GCD(b, a % b)

\* the rational n/d, d > 0, n >= 0, in lowest terms
Frac(n, d) == LET g == GCD(n, d) IN [num |-> n \div g, den |-> d \div g]
Zero == Frac(0, 1)
FromInt(n) == Frac(n, 1)
FracAdd(x, y) == Frac(x.num * y.den + y.num * x.den, x.den * y.den)
FracMul(x, y) == Frac(x.num * y.num, x.den * y.den)

\* Python's a / b on numbers: ZeroDivisionError when b is zero
TrueDiv(x, y) ==
    IF y.num = 0 THEN Raise("ZeroDivisionError")
    ELSE Return(Frac(x.num * y.den, x.den * y.num))

\* the dict d with d[k] = v
Ext(d, k, v) == [x \in DOMAIN d \cup {k} |-> IF x = k THEN v ELSE d[x]]
\* every dict of S, without the key k and with it at each value of V
OptExt(S, k, V) == S \cup {Ext(d, k, v) : d \in S, v \in V}

\* a character that is no decimal digit
NonDigit == 10

RECURSIVE DigitsValue(_, _)
DigitsValue(s, acc) ==
    IF s = <<>> THEN acc ELSE DigitsValue(Tail(s), acc * 10 + Head(s))

\* int(text) of lines 49-51 and 114-116: the value of a decimal text,
\* ValueError on an empty text or a text with a character that is no digit
int(s) ==
    IF s = <<>> \/ \E i \in 1..Len(s) : s[i] \notin 0..9
    THEN Raise("ValueError")
    ELSE Return(DigitsValue(s, 0))

\* (variant: a default of 1 for a missing count)
IntFieldDefaultOne(stats, key) ==
    IF key \in DOMAIN stats THEN int(stats[key]) ELSE Return(1)

\* int(stats.get(key, 0)): the default 0 is already an integer
IntField(stats, key) ==
    IF key \in DOMAIN stats THEN int(stats[key]) ELSE Return(0)

\* ------------------------------------------------------ credential (11-15)

\* line 12: api_key or os.getenv("YOUTUBE_API_KEY")
ResolveKey(arg, env) == Or(arg, env)

\* (variant: the test of lines 13-14 left out)
InitNoCheck(arg, env) == Return(ResolveKey(arg, env))

\* __init__, lines 11-15: the credential, or ValueError when it is falsy
__init__(arg, env) ==
    LET k == ResolveKey(arg, env)
    IN IF ~Truthy(k) THEN Raise("ValueError") ELSE Return(k)

\* ------------------------------------------------ HTTP responses (requests)

\* requests.get(...): the transport fails (the call raises a
\* RequestException) or answers with a status and a body; data is the body
\* as parsed JSON when is_json
Response(status, is_json, data) ==
    [transport |-> "ok", status |-> status, is_json |-> is_json, data |-> data]
TransportError ==
    [transport |-> "error", status |-> 0, is_json |-> FALSE, data |-> EmptyDict]
ErrorStatuses == {403, 404}

\* ------------------------------------------- get_channel_stats (21-59)

\* lines 46-53, the dict returned on success
Summary(channel_id, title, subs, views, videos, now) ==
    [channel_id |-> channel_id, channel_name |-> title, subscribers |-> subs,
     total_views |-> views, videos |-> videos, timestamp |-> now]

\* the try block, lines 30-53
ChannelTry(channel_id, resp, now) ==
    IF resp.transport # "ok" THEN Raise("RequestException")
    ELSE IF resp.status # 200 THEN Return(None)
    ELSE IF ~resp.is_json THEN Raise("JSONDecodeError")
    ELSE LET data == resp.data IN
    IF Get(Get(data, "pageInfo", EmptyDict), "totalResults", 0) = 0
    THEN Return(None)
    ELSE IF "items" \notin DOMAIN data THEN Raise("KeyError")
    ELSE IF data.items = <<>> THEN Raise("IndexError")
    ELSE LET channel == data.items[1] IN
    IF "statistics" \notin DOMAIN channel THEN Raise("KeyError")
    ELSE IF "snippet" \notin DOMAIN channel THEN Raise("KeyError")
    ELSE LET stats == channel.statistics
             snippet == channel.snippet
             subs == IntField(stats, "subscriberCount")
             views == IntField(stats, "viewCount")
             videos == IntField(stats, "videoCount")
    IN IF "title" \notin DOMAIN snippet THEN Raise("KeyError")
       ELSE IF subs.kind = "raise" THEN subs
       ELSE IF views.kind = "raise" THEN views
       ELSE IF videos.kind = "raise" THEN videos
       ELSE Return(Summary(channel_id, snippet.title, subs.value,
                           views.value, videos.value, now))

\* (variant: only the clause of lines 54-56, no `except Exception`)
ChannelExceptRequestOnly(o) ==
    IF o.kind = "raise" /\ o.exc \in RequestExceptions THEN Return(None)
    ELSE o

\* the except clauses, lines 54-59: every exception becomes None
ChannelExcept(o) ==
    IF o.kind = "raise" /\ o.exc \in RequestExceptions THEN Return(None)
    ELSE IF o.kind = "raise" THEN Return(None)
    ELSE o

get_channel_stats(channel_id, resp, now) ==
    ChannelExcept(ChannelTry(channel_id, resp, now))

\* every shape of channel-lookup answer get_channel_stats distinguishes
CountTexts == {<<0>>, <<1, 2>>, <<NonDigit>>}
CountKeys == {"subscriberCount", "viewCount", "videoCount"}
StatDicts == UNION {[S -> CountTexts] : S \in SUBSET CountKeys}
Snippets == {EmptyDict, [title |-> "Title"]}
ChannelItems ==
    OptExt(OptExt({EmptyDict}, "statistics", StatDicts), "snippet", Snippets)
PageInfos == {EmptyDict, [totalResults |-> 0], [totalResults |-> 1]}
ChannelData ==
    OptExt(OptExt({EmptyDict}, "pageInfo", PageInfos), "items",
           {<<>>} \cup {<<c>> : c \in ChannelItems})
AllChannelResponses ==
    {TransportError}
    \cup {Response(st, FALSE, EmptyDict) : st \in ErrorStatuses \cup {200}}
    \cup {Response(st, TRUE, d) : st \in {200, 404}, d \in ChannelData}

\* ------------------------------------------- get_recent_videos (65-124)

\* the first half of the try block, lines 77-88: the search sub-call.
\* [kind |-> "continue"] carries video_ids on to the detail sub-call
SearchTry(resp) ==
    IF resp.transport # "ok" THEN Raise("RequestException")
    ELSE IF resp.status # 200 THEN Return(<<>>)
    ELSE IF ~resp.is_json THEN Raise("JSONDecodeError")
    ELSE LET search_data == resp.data IN
    IF Get(search_data, "items", <<>>) = <<>> THEN Return(<<>>)
    ELSE LET items == search_data.items IN
    IF \E i \in 1..Len(items) :
          "id" \notin DOMAIN items[i] \/ "videoId" \notin DOMAIN items[i].id
    THEN Raise("KeyError")
    ELSE [kind |-> "continue",
          video_ids |-> [i \in 1..Len(items) |-> items[i].id.videoId]]

\* lines 107-117: one VideoRecord from one item of the detail response
VideoRecord(video) ==
    IF "statistics" \notin DOMAIN video THEN Raise("KeyError")
    ELSE IF "snippet" \notin DOMAIN video THEN Raise("KeyError")
    ELSE IF "id" \notin DOMAIN video THEN Raise("KeyError")
    ELSE LET stats == video.statistics
             snippet == video.snippet
             views == IntField(stats, "viewCount")
             likes == IntField(stats, "likeCount")
             comments == IntField(stats, "commentCount")
    IN IF "title" \notin DOMAIN snippet THEN Raise("KeyError")
       ELSE IF "publishedAt" \notin DOMAIN snippet THEN Raise("KeyError")
       ELSE IF views.kind = "raise" THEN views
       ELSE IF likes.kind = "raise" THEN likes
       ELSE IF comments.kind = "raise" THEN comments
       ELSE Return([video_id |-> video.id, title |-> snippet.title,
                    published_at |-> snippet.publishedAt,
                    views |-> views.value, likes |-> likes.value,
                    comments |-> comments.value])

\* the second half of the try block, lines 97-118: the detail sub-call.
\* The records are appended in the order of the response's items
DetailsTry(resp) ==
    IF resp.transport # "ok" THEN Raise("RequestException")
    ELSE IF resp.status # 200 THEN Return(<<>>)
    ELSE IF ~resp.is_json THEN Raise("JSONDecodeError")
    ELSE LET items == Get(resp.data, "items", <<>>)
             recs == [i \in 1..Len(items) |-> VideoRecord(items[i])]
    IN IF \E i \in 1..Len(items) : recs[i].kind = "raise"
       THEN recs[CHOOSE i \in 1..Len(items) :
                    /\ recs[i].kind = "raise"
                    /\ \A j \in 1..(i - 1) : recs[j].kind # "raise"]
       ELSE Return([i \in 1..Len(items) |-> recs[i].value])

\* the except clauses, lines 119-124: every exception becomes []
VideosExcept(o) ==
    IF o.kind = "raise" /\ o.exc \in RequestExceptions THEN Return(<<>>)
    ELSE IF o.kind = "raise" THEN Return(<<>>)
    ELSE o

\* --------------------------------- calculate_engagement_rate (130-134)

\* (variant: the views == 0 test of line 132 left out)
EngagementRateNoZeroTest(video_stats) ==
    IF video_stats = None \/ video_stats = EmptyDict THEN Return(Zero)
    ELSE LET q == TrueDiv(FromInt(video_stats.likes + video_stats.comments),
                          FromInt(video_stats.views))
         IN IF q.kind = "raise" THEN q
            ELSE Return(FracMul(q.value, FromInt(100)))

calculate_engagement_rate(video_stats) ==
    IF video_stats = None \/ video_stats = EmptyDict THEN Return(Zero)
    ELSE IF video_stats.views = 0 THEN Return(Zero)
    ELSE LET q == TrueDiv(FromInt(video_stats.likes + video_stats.comments),
                          FromInt(video_stats.views))
         IN IF q.kind = "raise" THEN q
            ELSE Return(FracMul(q.value, FromInt(100)))

\* ------------------------------- compare_channels, the loop body (153-178)

RECURSIVE SumViews(_)
SumViews(videos) ==
    IF videos = <<>> THEN 0 ELSE Head(videos).views + SumViews(Tail(videos))

\* sum(self.calculate_engagement_rate(v) for v in recent_videos), line 155
RECURSIVE SumRates(_)
SumRates(videos) ==
    IF videos = <<>> THEN Return(Zero)
    ELSE LET r == calculate_engagement_rate(Head(videos))
             rest == SumRates(Tail(videos))
         IN IF r.kind = "raise" THEN r
            ELSE IF rest.kind = "raise" THEN rest
            ELSE Return(FracAdd(r.value, rest.value))

\* half days in a day: timedelta.days (line 163) counts whole days, rounding
\* towards minus infinity
HalfDaysPerDay == 2

\* line 163: (upload_dates[0] - upload_dates[-1]).days
DaysDiff(videos) ==
    (videos[1].published_at - videos[Len(videos)].published_at)
        \div HalfDaysPerDay

\* lines 162-166
UploadFrequency(videos) ==
    IF Len(videos) >= 2
    THEN LET days_diff == DaysDiff(videos)
         IN IF days_diff > 0
            THEN Frac(Len(videos), IF days_diff > 1 THEN days_diff ELSE 1)
            ELSE FromInt(Len(videos))
    ELSE Zero

\* lines 154-166 and 172-178: the row of a channel from its videos, or the
\* exception raised on the way
VideoMetricsRow(channel_stats, recent_videos) ==
    LET n == FromInt(Len(recent_videos))
        avg_views == TrueDiv(FromInt(SumViews(recent_videos)), n)
        rates == SumRates(recent_videos)
    IN IF avg_views.kind = "raise" THEN avg_views
       ELSE IF rates.kind = "raise" THEN rates
       ELSE Return(
              [channel_id |-> channel_stats.channel_id,
               channel_name |-> channel_stats.channel_name,
               subscribers |-> channel_stats.subscribers,
               total_views |-> channel_stats.total_views,
               videos |-> channel_stats.videos,
               timestamp |-> channel_stats.timestamp,
               avg_views_per_video |-> avg_views.value,
               avg_engagement_rate |-> TrueDiv(rates.value, n).value,
               upload_frequency_per_day |-> UploadFrequency(recent_videos),
               recent_video_count |-> Len(recent_videos)])

\* (variant: the `if recent_videos:` test of line 153 left out)
RowNoEmptyTest(channel_stats, recent_videos) ==
    VideoMetricsRow(channel_stats, recent_videos)

\* lines 153-178: the row appended for a channel, or the exception raised
Row(channel_stats, recent_videos) ==
    IF recent_videos # <<>>
    THEN VideoMetricsRow(channel_stats, recent_videos)
    ELSE Return(
              [channel_id |-> channel_stats.channel_id,
               channel_name |-> channel_stats.channel_name,
               subscribers |-> channel_stats.subscribers,
               total_views |-> channel_stats.total_views,
               videos |-> channel_stats.videos,
               timestamp |-> channel_stats.timestamp,
               avg_views_per_video |-> Zero,
               avg_engagement_rate |-> Zero,
               upload_frequency_per_day |-> Zero,
               recent_video_count |-> Len(recent_videos)])

\* ------------------------------------------ export_to_csv, main (188-244)

\* line 193: data[0].keys(), the keys of a row in insertion order
fieldnames ==
    <<"channel_id", "channel_name", "subscribers", "total_views", "videos",
      "timestamp", "avg_views_per_video", "avg_engagement_rate",
      "upload_frequency_per_day", "recent_video_count">>

\* the export file before the run: whatever was there, possibly nothing
PriorFile == [state |-> "prior", header |-> <<>>, records |-> <<>>]

\* what the operating system does to the write of lines 196-199: it
\* succeeds, open() fails, or a write fails after open() truncated the file
\* and k records went out (header: whether the header line did)
IoOutcomes(data) ==
    {[io |-> "ok", header |-> TRUE, k |-> Len(data)],
     [io |-> "open_failed", header |-> FALSE, k |-> 0],
     [io |-> "write_failed", header |-> FALSE, k |-> 0]}
    \cup {[io |-> "write_failed", header |-> TRUE, k |-> k] :
             k \in 0..(Len(data) - 1)}

\* export_to_csv, lines 188-202: the file it leaves. No exception leaves it
export_to_csv(data, file_before, io) ==
    IF data = <<>> THEN file_before
    ELSE IF io.io = "open_failed" THEN file_before
    ELSE IF io.io = "write_failed"
    THEN [state |-> "partial",
          header |-> IF io.header THEN fieldnames ELSE <<>>,
          records |-> SubSeq(data, 1, io.k)]
    ELSE [state |-> "written", header |-> fieldnames, records |-> data]

\* whether export_to_csv reaches open(), line 196
ReachesOpen(data) == data # <<>>

\* sorted(comparison_data, key=lambda x: x['subscribers'], reverse=True),
\* line 232: a new list, stable (rows with equal keys keep their order)
RECURSIVE InsertDesc(_, _)
InsertDesc(row, sorted) ==
    IF sorted = <<>> THEN <<row>>
    ELSE IF Head(sorted).subscribers >= row.subscribers
         THEN <<Head(sorted)>> \o InsertDesc(row, Tail(sorted))
         ELSE <<row>> \o sorted

RECURSIVE SortedBySubscribers(_)
SortedBySubscribers(rows) ==
    IF rows = <<>> THEN <<>>
    ELSE InsertDesc(rows[Len(rows)],
                    SortedBySubscribers(SubSeq(rows, 1, Len(rows) - 1)))

\* (variant: comparison_data.sort(...) in place before the report)
ExportArgumentSorted(comparison_data) == SortedBySubscribers(comparison_data)

\* line 242: the list main hands to export_to_csv is comparison_data itself
ExportArgument(comparison_data) == comparison_data

\* ----------------------------------------------- the platform (remote API)

ChannelIds == {"A", "B"}

\* the channel resource the platform holds for an identifier
PlatformChannel(cid) ==
    IF cid = "A"
    THEN [statistics |-> [subscriberCount |-> <<1>>],
          snippet |-> [title |-> "Name-A"]]
    ELSE [statistics |-> [subscriberCount |-> <<2>>, viewCount |-> <<1, 0>>,
                          videoCount |-> <<3>>],
          snippet |-> [title |-> "Name-B"]]

\* what the channel-lookup endpoint may answer for an identifier
ChannelResponses(cid) ==
    {TransportError, Response(404, TRUE, EmptyDict),
     Response(200, FALSE, EmptyDict),
     Response(200, TRUE, [pageInfo |-> [totalResults |-> 0]]),
     Response(200, TRUE, [pageInfo |-> [totalResults |-> 1],
                          items |-> <<PlatformChannel(cid)>>])}

\* the n-th oldest video of a channel
VideoId(cid, n) == [channel |-> cid, n |-> n]

\* publish instants, in half days: A publishes every half day, B every
\* day and a half
PublishedAt(id) == IF id.channel = "A" THEN id.n - 1 ELSE 3 * (id.n - 1)

PlatformVideo(id) ==
    [id |-> id,
     statistics |->
        IF id.n = 1 THEN [likeCount |-> <<3>>]
        ELSE IF id.n = 2
        THEN [viewCount |-> <<1, 0>>, likeCount |-> <<1>>,
              commentCount |-> <<1>>]
        ELSE [viewCount |-> <<2, 0>>, likeCount |-> <<1>>],
     snippet |-> [title |-> "Video", publishedAt |-> PublishedAt(id)]]

\* the videos numbered S of a channel, newest first (order=date)
RECURSIVE NewestFirst(_, _)
NewestFirst(cid, S) ==
    IF S = {} THEN <<>>
    ELSE LET m == CHOOSE x \in S : \A y \in S : y <= x
         IN <<[id |-> [videoId |-> VideoId(cid, m)]]>>
            \o NewestFirst(cid, S \ {m})

\* what the search endpoint may answer for a channel
SearchResponses(cid) ==
    {TransportError, Response(403, TRUE, EmptyDict),
     Response(200, FALSE, EmptyDict), Response(200, TRUE, EmptyDict)}
    \cup {Response(200, TRUE, [items |-> NewestFirst(cid, S)]) :
             S \in SUBSET (1..MaxVideos)}

\* the sequences without repetition over the elements of a sequence
Arrangements(ids) ==
    {p \in UNION {[1..k -> 1..Len(ids)] : k \in 0..Len(ids)} :
        \A i, j \in DOMAIN p : i # j => p[i] # p[j]}

\* what the video-details endpoint may answer for a list of identifiers:
\* any of the videos, in any order
DetailResponses(ids) ==
    {TransportError, Response(403, TRUE, EmptyDict),
     Response(200, FALSE, EmptyDict), Response(200, TRUE, EmptyDict),
     Response(200, TRUE, [items |-> <<[id |-> ids[1]]>>])}
    \cup {Response(200, TRUE,
                   [items |-> [i \in DOMAIN p |-> PlatformVideo(ids[p[i]])]]) :
             p \in Arrangements(ids)}

\* -------------------------------------------------------------- the state

VARIABLES
    entry,          \* "main": main() runs; "library": a caller constructs
    key_arg,        \* the api_key argument of __init__
    key_env,        \* os.getenv("YOUTUBE_API_KEY")
    channel_ids,    \* the argument of compare_channels
    pc,             \* where the run is
    api_key,        \* self.api_key
    idx,            \* position in channel_ids of the loop of line 143
    clock,          \* datetime.now()
    channel_stats,  \* local of compare_channels, line 145
    video_ids,      \* local of get_recent_videos, line 88
    recent_videos,  \* local of compare_channels, line 151
    results,        \* local of compare_channels, line 141
    fetched,        \* what get_channel_stats returned, call after call
    calls,          \* the HTTP calls issued so far, in order
    request,        \* the parameters of the HTTP call issued last
    response,       \* what that call came back with (locals of 30, 77, 97)
    console,        \* the rows of the report printed by lines 232-239
    file,           \* channel_comparison.csv
    opens,          \* how many times line 196 opened the file
    fn_pc, fn_in, fn_out   \* a single call of one function: input, outcome

vars == <<entry, key_arg, key_env, channel_ids, pc, api_key, idx, clock,
          channel_stats, video_ids, recent_videos, results, fetched, calls,
          request, response, console, file, opens, fn_pc, fn_in, fn_out>>

inputs == <<entry, key_arg, key_env, channel_ids>>
fn_vars == <<fn_pc, fn_in, fn_out>>
run_vars == <<pc, api_key, idx, clock, channel_stats, video_ids,
              recent_videos, results, fetched, calls, request, response,
              console, file, opens>>

NoResponse ==
    [transport |-> "none", status |-> 0, is_json |-> FALSE, data |-> EmptyDict]
NoRequest == [kind |-> "none", pos |-> 0, key |-> NoKey, ids |-> <<>>]

ChannelLists == UNION {[1..n -> ChannelIds] : n \in 0..MaxChannels}

\* the state before anything ran
Fresh ==
    /\ pc = "start"
    /\ api_key = NoKey
    /\ idx = 1
    /\ clock = 1
    /\ channel_stats = None
    /\ video_ids = <<>>
    /\ recent_videos = <<>>
    /\ results = <<>>
    /\ fetched = <<>>
    /\ calls = <<>>
    /\ request = NoRequest
    /\ response = NoResponse
    /\ console = <<>>
    /\ file = PriorFile
    /\ opens = 0
    /\ fn_pc = "idle"
    /\ fn_in = None
    /\ fn_out = None

\* main() reads the key from the environment and passes it on (214-220)
Init ==
    /\ entry = "main"
    /\ key_env \in {NoKey, "", "KEY_ENV"}
    /\ key_arg = key_env
    /\ channel_ids \in ChannelLists
    /\ Fresh

\* lines 214-218: main() gives up when the environment has no key
MainNoKey ==
    /\ pc = "start"
    /\ entry = "main"
    /\ ~Truthy(key_env)
    /\ pc' = "config_error"
    /\ UNCHANGED <<inputs, fn_vars, api_key, idx, clock, channel_stats,
                   video_ids, recent_videos, results, fetched, calls,
                   request, response, console, file, opens>>

\* line 220, or a caller's YouTubeGrowthTracker(key_arg): __init__
Construct ==
    /\ pc = "start"
    /\ entry = "main" => Truthy(key_env)
    /\ LET o == __init__(key_arg, key_env)
       IN IF o.kind = "raise"
          THEN /\ pc' = "config_error"
               /\ api_key' = api_key
          ELSE /\ pc' = "loop"
               /\ api_key' = o.value
    /\ UNCHANGED <<inputs, fn_vars, idx, clock, channel_stats, video_ids,
                   recent_videos, results, fetched, calls, request, response,
                   console, file, opens>>

Call(kind, ids) == [kind |-> kind, pos |-> idx, key |-> api_key, ids |-> ids]
Logged(c) == [kind |-> c.kind, pos |-> c.pos, key |-> c.key]

\* (variant: break instead of continue, the loop ends at the first failure)
SkipToBreak(i) == Len(channel_ids) + 1

\* line 149, continue: the loop goes on with the next identifier
SkipTo(i) == i + 1

\* (variant: only the first identifier is sent)
DetailIdsFirstOnly(ids) == <<ids[1]>>

\* line 93: the id parameter of the detail call, every identifier of the
\* search joined by commas
DetailIds(ids) == ids

\* lines 172-178 and the end of the loop body: the row is appended, or the
\* exception of the loop body leaves compare_channels
AppendRow(videos) ==
    LET o == Row(channel_stats', videos)
    IN IF o.kind = "raise"
       THEN /\ pc' = "crashed"
            /\ UNCHANGED <<results, idx>>
       ELSE /\ pc' = "loop"
            /\ results' = Append(results, o.value)
            /\ idx' = idx + 1

\* lines 143-149: the next identifier, its channel-lookup call, and the
\* skip when there is no summary
FetchChannel ==
    /\ pc = "loop"
    /\ idx <= Len(channel_ids)
    /\ \E resp \in ChannelResponses(channel_ids[idx]) :
         LET o == get_channel_stats(channel_ids[idx], resp, clock)
         IN /\ response' = resp
            /\ IF o.kind = "raise"
               THEN /\ pc' = "crashed"
                    /\ UNCHANGED <<channel_stats, fetched, idx>>
               ELSE /\ channel_stats' = o.value
                    /\ fetched' = Append(fetched, o.value)
                    /\ IF o.value = None
                       THEN pc' = "loop" /\ idx' = SkipTo(idx)
                       ELSE pc' = "search" /\ idx' = idx
    /\ clock' = clock + 1
    /\ request' = Call("channels", <<>>)
    /\ calls' = Append(calls, Logged(request'))
    /\ UNCHANGED <<inputs, fn_vars, api_key, video_ids, recent_videos,
                   results, console, file, opens>>

\* lines 151, 77-88: the search sub-call of get_recent_videos; when it
\* yields no identifiers get_recent_videos returns [] and the row follows
Search ==
    /\ pc = "search"
    /\ request' = Call("search", <<>>)
    /\ calls' = Append(calls, Logged(request'))
    /\ UNCHANGED channel_stats
    /\ \E resp \in SearchResponses(channel_ids[idx]) :
         LET t == SearchTry(resp)
             o == VideosExcept(t)
         IN /\ response' = resp
            /\ IF t.kind = "continue"
               THEN /\ video_ids' = t.video_ids
                    /\ pc' = "details"
                    /\ UNCHANGED <<recent_videos, results, idx>>
               ELSE IF o.kind = "raise"
               THEN /\ pc' = "crashed"
                    /\ UNCHANGED <<video_ids, recent_videos, results, idx>>
               ELSE /\ recent_videos' = o.value
                    /\ UNCHANGED video_ids
                    /\ AppendRow(o.value)
    /\ UNCHANGED <<inputs, fn_vars, api_key, clock, fetched, console, file,
                   opens>>

\* lines 90-118: the detail sub-call; get_recent_videos returns and the row
\* follows
Details ==
    /\ pc = "details"
    /\ request' = Call("videos", DetailIds(video_ids))
    /\ calls' = Append(calls, Logged(request'))
    /\ UNCHANGED channel_stats
    /\ \E resp \in DetailResponses(request'.ids) :
         LET o == VideosExcept(DetailsTry(resp))
         IN /\ response' = resp
            /\ IF o.kind = "raise"
               THEN /\ pc' = "crashed"
                    /\ UNCHANGED <<recent_videos, results, idx>>
               ELSE /\ recent_videos' = o.value
                    /\ AppendRow(o.value)
    /\ UNCHANGED <<inputs, fn_vars, api_key, clock, video_ids, fetched,
                   console, file, opens>>

\* line 182: the loop is over, compare_channels returns and its locals go
CompareReturn ==
    /\ pc = "loop"
    /\ idx > Len(channel_ids)
    /\ pc' = "returned"
    /\ channel_stats' = None
    /\ video_ids' = <<>>
    /\ recent_videos' = <<>>
    /\ request' = NoRequest
    /\ response' = NoResponse
    /\ UNCHANGED <<inputs, fn_vars, api_key, idx, clock, results, fetched,
                   calls, console, file, opens>>

\* lines 229-241: the console report, from a sorted copy
Report ==
    /\ pc = "returned"
    /\ results # <<>>
    /\ console' = SortedBySubscribers(results)
    /\ pc' = "export"
    /\ UNCHANGED <<inputs, fn_vars, api_key, idx, clock, channel_stats,
                   video_ids, recent_videos, results, fetched, calls,
                   request, response, file, opens>>

\* lines 243-244: nothing was retrieved
NoData ==
    /\ pc = "returned"
    /\ results = <<>>
    /\ pc' = "done"
    /\ UNCHANGED <<inputs, fn_vars, api_key, idx, clock, channel_stats,
                   video_ids, recent_videos, results, fetched, calls,
                   request, response, console, file, opens>>

\* line 242: export_to_csv(comparison_data)
Export ==
    /\ pc = "export"
    /\ LET data == ExportArgument(results)
       IN /\ \E io \in IoOutcomes(data) :
                file' = export_to_csv(data, file, io)
          /\ opens' = IF ReachesOpen(data) THEN opens + 1 ELSE opens
    /\ pc' = "done"
    /\ UNCHANGED <<inputs, fn_vars, api_key, idx, clock, channel_stats,
                   video_ids, recent_videos, results, fetched, calls,
                   request, response, console>>

Next ==
    \/ MainNoKey
    \/ Construct
    \/ FetchChannel
    \/ Search
    \/ Details
    \/ CompareReturn
    \/ Report
    \/ NoData
    \/ Export

Spec == Init /\ [][Next]_vars

\* ------------------------------------------- every way to supply the key

\* as Init, and also a caller that constructs the tracker with any argument
\* in any environment, over the lists shorter than MaxChannels
InitKeys ==
    /\ entry \in {"main", "library"}
    /\ key_env \in {NoKey, "", "KEY_ENV"}
    /\ key_arg \in IF entry = "main" THEN {key_env}
                   ELSE {NoKey, "", "KEY_ARG"}
    /\ channel_ids \in {l \in ChannelLists : Len(l) < MaxChannels}
    /\ Fresh

SpecKeys == InitKeys /\ [][Next]_vars

\* ------------------------------------------- one function, called once

InitFn ==
    /\ entry = "library"
    /\ key_env = NoKey
    /\ key_arg = NoKey
    /\ channel_ids = <<>>
    /\ Fresh

\* get_channel_stats(channel_id) on any answer of the lookup endpoint
CallChannelStats ==
    /\ fn_pc = "idle"
    /\ \E cid \in ChannelIds, resp \in AllChannelResponses :
         /\ fn_in' = [channel_id |-> cid, response |-> resp, now |-> clock]
         /\ fn_out' = get_channel_stats(cid, resp, clock)
    /\ fn_pc' = "get_channel_stats"
    /\ UNCHANGED <<inputs, run_vars>>

\* what calculate_engagement_rate may be given: nothing, or a record
EngagementInputs ==
    {None, EmptyDict}
    \cup [views : 0..MaxStat, likes : 0..MaxStat, comments : 0..MaxStat]

CallEngagement ==
    /\ fn_pc = "idle"
    /\ \E v \in EngagementInputs :
         /\ fn_in' = v
         /\ fn_out' = calculate_engagement_rate(v)
    /\ fn_pc' = "calculate_engagement_rate"
    /\ UNCHANGED <<inputs, run_vars>>

NextFn == CallChannelStats \/ CallEngagement

SpecFn == InitFn /\ [][NextFn]_vars

\* ================================================================ claims

IsSummary(s) == s # None
\* the summaries get_channel_stats returned, in the order of the calls
Successes == SelectSeq(fetched, IsSummary)
BaseFields(row) ==
    [channel_id |-> row.channel_id, channel_name |-> row.channel_name,
     subscribers |-> row.subscribers, total_views |-> row.total_views,
     videos |-> row.videos, timestamp |-> row.timestamp]
Returned == pc \in {"returned", "export", "done"}
Failed(resp) == resp.transport = "error" \/ resp.status # 200

C2_NoFailureEscapes ==
    /\ pc # "crashed"
    /\ \A p \in 1..Len(fetched) :
          \/ fetched[p] = None
          \/ DOMAIN fetched[p] = {"channel_id", "channel_name", "subscribers",
                                  "total_views", "videos", "timestamp"}
    /\ DOMAIN recent_videos = 1..Len(recent_videos)
    /\ (request.kind = "channels" /\ Failed(response))
          => (channel_stats = None /\ pc = "loop")
    /\ (request.kind \in {"search", "videos"} /\ Failed(response))
          => (recent_videos = <<>> /\ pc = "loop")
    /\ Returned => Len(fetched) = Len(channel_ids)
    /\ pc \in {"loop", "search", "details"} => ENABLED Next

\* the detail sub-call met a transport error and the row was still appended
C2_Witness ==
    /\ pc = "loop"
    /\ request.kind = "videos"
    /\ response.transport = "error"
    /\ recent_videos = <<>>
    /\ Len(results) = Len(Successes)
    /\ Len(results) >= 1

\* the value of the decimal texts of CountTexts
TextValue == [t \in {<<0>>, <<1, 2>>} |-> IF t = <<0>> THEN 0 ELSE 12]
\* a channel resource: statistics with decimal counts and a titled snippet
ChannelResource(c) ==
    /\ "statistics" \in DOMAIN c
    /\ "snippet" \in DOMAIN c
    /\ "title" \in DOMAIN c.snippet
    /\ \A k \in DOMAIN c.statistics : c.statistics[k] \in DOMAIN TextValue
\* status 200 and an items list with at least one result
HasResult(resp) ==
    /\ resp.transport = "ok"
    /\ resp.status = 200
    /\ resp.is_json
    /\ "items" \in DOMAIN resp.data
    /\ resp.data.items # <<>>
    /\ ChannelResource(resp.data.items[1])
TotalResultsNonZero(resp) ==
    /\ "pageInfo" \in DOMAIN resp.data
    /\ "totalResults" \in DOMAIN resp.data.pageInfo
    /\ resp.data.pageInfo.totalResults # 0
ExpectedCount(stats, k) == IF k \in DOMAIN stats THEN TextValue[stats[k]] ELSE 0
CountsAsSent(summary, stats) ==
    /\ summary.subscribers = ExpectedCount(stats, "subscriberCount")
    /\ summary.total_views = ExpectedCount(stats, "viewCount")
    /\ summary.videos = ExpectedCount(stats, "videoCount")

\* C3 as written: get_channel_stats produces a summary exactly when the
\* answer has status 200 and its items list holds at least one result
\* (absent or empty items, a non-200 status, a transport error: none).
C3_Original ==
    fn_pc = "get_channel_stats" =>
        /\ fn_out.kind = "return"
        /\ IsSummary(fn_out.value) <=> HasResult(fn_in.response)

\* C3 as amended: get_channel_stats produces a summary exactly when the
\* answer has status 200, its pageInfo.totalResults is present and not 0,
\* and its items list holds at least one result; then the three counts are
\* the integer values of the count fields, 0 for a missing one.
C3_SummaryIffFound ==
    fn_pc = "get_channel_stats" =>
        /\ fn_out.kind = "return"
        /\ IsSummary(fn_out.value)
              <=> (HasResult(fn_in.response)
                   /\ TotalResultsNonZero(fn_in.response))
        /\ IsSummary(fn_out.value) =>
              /\ fn_out.value.channel_id = fn_in.channel_id
              /\ CountsAsSent(fn_out.value,
                              fn_in.response.data.items[1].statistics)

\* a summary from an answer without viewCount: total_views is 0
C3_Witness ==
    /\ fn_pc = "get_channel_stats"
    /\ IsSummary(fn_out.value)
    /\ "viewCount" \notin DOMAIN fn_in.response.data.items[1].statistics
    /\ "subscriberCount" \in DOMAIN fn_in.response.data.items[1].statistics
    /\ fn_out.value.total_views = 0
    /\ fn_out.value.subscribers = 12

\* C7: calculate_engagement_rate returns (likes + comments) / views * 100
\* when views > 0, 0.0 when views is 0 or the input is absent, and never
\* raises a division by zero.
C7_EngagementRate ==
    fn_pc = "calculate_engagement_rate" =>
        /\ fn_out.kind = "return"
        /\ fn_out.value.den > 0
        /\ IF fn_in = None \/ fn_in = EmptyDict THEN fn_out.value.num = 0
           ELSE IF fn_in.views = 0 THEN fn_out.value.num = 0
           ELSE fn_out.value.num * fn_in.views
                   = (fn_in.likes + fn_in.comments) * 100 * fn_out.value.den

\* no views but likes: the rate is 0.0
C7_Witness ==
    /\ fn_pc = "calculate_engagement_rate"
    /\ fn_in # None
    /\ fn_in # EmptyDict
    /\ fn_in.views = 0
    /\ fn_in.likes > 0
    /\ fn_out = Return(Zero)

\* get_recent_videos has just returned and the row was appended or not
VideosReturned == request.kind \in {"search", "videos"} /\ pc # "details"
LastRow == results[Len(results)]

\* C4 as written: with days_diff the whole-day difference between the first
\* and the last video's publish instant, the upload frequency is 0 for
\* fewer than 2 videos, the count when days_diff is 0, and otherwise
\* count / days_diff.
C4_Original ==
    (VideosReturned /\ pc = "loop") =>
        LET n == Len(recent_videos)
            f == LastRow.upload_frequency_per_day
        IN IF n < 2 THEN f = Zero
           ELSE IF DaysDiff(recent_videos) = 0 THEN f = FromInt(n)
           ELSE f.num * DaysDiff(recent_videos) = n * f.den

\* C5 as written: the records get_recent_videos returns are in the order of
\* the search identifiers, whatever the order of the detail response: the
\* i-th record is that of the i-th search identifier with a detail item.
C5_Original ==
    (request.kind = "videos" /\ pc = "loop") =>
        LET Got(id) == \E i \in 1..Len(recent_videos) :
                           recent_videos[i].video_id = id
        IN [i \in 1..Len(recent_videos) |-> recent_videos[i].video_id]
               = SelectSeq(video_ids, Got)

\* C8: a channel with a summary and an empty recent-video list (no videos,
\* or the video fetch failed) still gets its row, with the three derived
\* metrics 0 and recent_video_count 0.
C8_EmptyListZeroRow ==
    /\ (VideosReturned /\ recent_videos = <<>>) =>
          /\ pc = "loop"
          /\ results # <<>>
          /\ BaseFields(LastRow) = channel_stats
          /\ LastRow.recent_video_count = 0
    /\ \A i \in 1..Len(results) :
          results[i].recent_video_count = 0 =>
             /\ results[i].avg_views_per_video = Zero
             /\ results[i].avg_engagement_rate = Zero
             /\ results[i].upload_frequency_per_day = Zero

\* the search failed with a non-200 status and the zero row is there
C8_Witness ==
    /\ pc = "loop"
    /\ request.kind = "search"
    /\ response.status = 403
    /\ recent_videos = <<>>
    /\ BaseFields(LastRow) = channel_stats
    /\ LastRow.recent_video_count = 0
    /\ LastRow.upload_frequency_per_day = Zero

Descending(rows) ==
    \A i \in 1..(Len(rows) - 1) : rows[i].subscribers >= rows[i + 1].subscribers

\* C9 as written: the file is written only when there are rows; with zero
\* rows it is left as it was, with at least one row it is written once,
\* after the report, one record per row in processing order.
C9_Original ==
    /\ opens <= 1
    /\ opens = 1 => (results # <<>> /\ console # <<>>)
    /\ pc = "done" =>
          IF results = <<>> THEN file = PriorFile /\ opens = 0
          ELSE /\ opens = 1
               /\ file.state = "written"
               /\ file.records = results

\* C9 as amended: the file is touched only when there are rows; with zero
\* rows it is left as it was; with at least one row export_to_csv opens it
\* once, after the report, and a write that succeeds leaves one record per
\* row in processing order whatever the report's sort did, while a write
\* that fails leaves the file untouched or with the first records only.
C9_ExportOnlyRows ==
    /\ opens <= 1
    /\ (opens = 1 \/ file # PriorFile) =>
          /\ pc = "done"
          /\ results # <<>>
          /\ console # <<>>
          /\ Len(console) = Len(results)
          /\ Descending(console)
    /\ pc = "done" =>
          IF results = <<>> THEN file = PriorFile /\ opens = 0
          ELSE opens = 1
    /\ file.state \in {"prior", "partial", "written"}
    /\ file.state = "written" =>
          /\ file.header = fieldnames
          /\ file.records = results
          /\ \A i \in 1..Len(file.records) :
                BaseFields(file.records[i]) = Successes[i]
    /\ file.state = "partial" =>
          \E k \in 0..(Len(results) - 1) : file.records = SubSeq(results, 1, k)

\* two rows whose report order differs from the order in the file
C9_Witness ==
    /\ pc = "done"
    /\ file.state = "written"
    /\ Len(results) = 2
    /\ console # results
    /\ file.records = results
    /\ opens = 1

\* the kinds of the calls issued for the identifier at position p
KindsAt(p) ==
    LET At(c) == c.pos = p
        at == SelectSeq(calls, At)
    IN [i \in 1..Len(at) |-> at[i].kind]

C10_State ==
    /\ \A i \in 1..(Len(calls) - 1) : calls[i].pos <= calls[i + 1].pos
    /\ \A p \in 1..Len(channel_ids) :
          /\ KindsAt(p) \in {<<>>, <<"channels">>, <<"channels", "search">>,
                             <<"channels", "search", "videos">>}
          /\ Len(KindsAt(p)) >= 1 <=> p <= Len(fetched)
          /\ Len(KindsAt(p)) >= 2 => IsSummary(fetched[p])
          /\ (p < idx /\ p <= Len(fetched) /\ IsSummary(fetched[p]))
                => Len(KindsAt(p)) >= 2
    /\ \A i \in 1..Len(calls) : calls[i].pos \in 1..Len(channel_ids)
    /\ Len(fetched) <= Len(channel_ids)
    /\ pc = "loop" => Len(fetched) = idx - 1
    /\ pc = "search" =>
          Len(fetched) = idx /\ KindsAt(idx) = <<"channels">>
    /\ pc = "details" =>
          /\ Len(fetched) = idx
          /\ KindsAt(idx) = <<"channels", "search">>
          /\ response.transport = "ok"
          /\ response.status = 200
          /\ video_ids # <<>>
          /\ video_ids = [i \in 1..Len(response.data.items) |->
                             response.data.items[i].id.videoId]
    /\ request.kind = "videos" =>
          /\ request.ids = video_ids
          /\ \A i \in 1..Len(request.ids) :
                request.ids[i].channel = channel_ids[request.pos]

C10_Step ==
    /\ Len(calls') \in {Len(calls), Len(calls) + 1}
    /\ Len(calls') = Len(calls) + 1 =>
          /\ SubSeq(calls', 1, Len(calls)) = calls
          /\ calls'[Len(calls')].kind = "channels" => pc = "loop"
          /\ calls'[Len(calls')].kind = "search" => pc = "search"
          /\ calls'[Len(calls')].kind = "videos" => pc = "details"

\* C10: the HTTP calls go out one at a time, identifier after identifier in
\* input order: one channel-lookup call; only after a summary one search
\* call; only after a 200 search answer with at least one identifier one
\* video-details call with all the search identifiers; nothing for the next
\* identifier before that, no search or details call for a skipped channel,
\* at most three calls per identifier.
C10_CallOrder == []C10_State /\ [][C10_Step]_vars

\* a skipped first identifier with its single call, then all three calls
C10_Witness ==
    /\ pc = "done"
    /\ Len(channel_ids) = 2
    /\ fetched[1] = None
    /\ KindsAt(1) = <<"channels">>
    /\ KindsAt(2) = <<"channels", "search", "videos">>
    /\ Len(calls) = 4

\* the credential the two sources yield
ExpectedKey == IF key_arg \notin {NoKey, ""} THEN key_arg ELSE key_env

\* C6: without a non-empty key from the argument or the environment the run
\* ends in the configuration error with no HTTP call issued and no export
\* written; every HTTP call issued carries the non-empty credential resolved
\* at startup, the same for the whole run.
C6_Credential ==
    /\ (key_arg \in {NoKey, ""} /\ key_env \in {NoKey, ""}) =>
          /\ pc \in {"start", "config_error"}
          /\ api_key = NoKey
    /\ pc \in {"start", "config_error"} =>
          /\ calls = <<>>
          /\ file = PriorFile
          /\ opens = 0
    /\ pc = "start" => ENABLED Next
    /\ pc \notin {"start", "config_error"} => api_key = ExpectedKey
    /\ \A i \in 1..Len(calls) :
          /\ calls[i].key \notin {NoKey, ""}
          /\ calls[i].key = ExpectedKey
          /\ calls[i].key = api_key

\* an empty argument, the key of the environment on all three calls
C6_Witness ==
    /\ entry = "library"
    /\ key_arg = ""
    /\ api_key = "KEY_ENV"
    /\ pc = "done"
    /\ Len(calls) = 3
    /\ \A i \in 1..3 : calls[i].key = "KEY_ENV"

====
